---- MODULE Spec2Model ----
(***************************************************************************)
(* Model of the profanity classification handler, app.post("/") of         *)
(* src/seed.ts.  One request is followed from its arrival to its response. *)
(*                                                                         *)
(* Strings are sequences of characters.  Similarity scores are kept in     *)
(* hundredths (0.95 is 95), so that the comparisons of the handler are     *)
(* integer comparisons.                                                    *)
(***************************************************************************)
EXTENDS Integers, Sequences, FiniteSets, TLC

VARIABLES pc, contentType, body, message, wordChunks, semanticChunks,
          index, pending, failed, flaggedFor, vectorRes, response

vars == <<pc, contentType, body, message, wordChunks, semanticChunks,
          index, pending, failed, flaggedFor, vectorRes, response>>

(***************************************************************************)
(* Bounds of the model                                                     *)
(***************************************************************************)
MaxLen == 3

(***************************************************************************)
(* Program constants                                                       *)
(***************************************************************************)
WordThreshold == 95

PROFANITY_THRESHOLD == 86

WHITELIST == << <<"w">> >>

MinWords == 2

MaxWords == 35

MaxChars == 1000

chunkSize == 25

chunkOverlap == 9

(***************************************************************************)
(* Characters and strings                                                  *)
(***************************************************************************)
Whitespace == {" "}

Alphabet == {"a", "W", " "}

\* String.prototype.toLowerCase, character by character
ToLowerChar(ch) == IF ch = "W" THEN "w" ELSE ch

toLowerCase(s) == [i \in 1..Len(s) |-> ToLowerChar(s[i])]

\* Array.prototype.includes
includes(arr, x) == \E i \in 1..Len(arr) : arr[i] = x

\* the positions of the whitespace characters of s, in increasing order
Separators(s) ==
  LET at == {i \in 1..Len(s) : s[i] \in Whitespace}
  IN [k \in 1..Cardinality(at) |->
        CHOOSE i \in at : Cardinality({j \in at : j <= i}) = k]

\* s.split(/\s/): one piece between every two consecutive whitespace
\* characters, the empty pieces included; "" gives [""]
split(s) ==
  LET seps == Separators(s)
      n    == Len(seps)
      from(k) == IF k = 1 THEN 1 ELSE seps[k - 1] + 1
      to(k)   == IF k = n + 1 THEN Len(s) ELSE seps[k] - 1
  IN [k \in 1..(n + 1) |-> SubSeq(s, from(k), to(k))]

\* Array.prototype.join
RECURSIVE join(_, _)
join(arr, sep) ==
  IF arr = <<>> THEN <<>>
  ELSE IF Len(arr) = 1 THEN arr[1]
  ELSE arr[1] \o sep \o join(Tail(arr), sep)

NotWhitelisted(word) == ~ includes(WHITELIST, toLowerCase(word))

\* filtering out the whitelisted words
filterWhitelist(msg) == join(SelectSeq(split(msg), NotWhitelisted), <<" ">>)

(***************************************************************************)
(* The windowing capability behind semanticSplitter: the text is cut at    *)
(* its spaces and the pieces are merged again into windows of at most      *)
(* chunkSize characters that overlap by at most chunkOverlap characters.   *)
(***************************************************************************)
RECURSIVE SumLen(_)
SumLen(arr) == IF arr = <<>> THEN 0 ELSE Len(arr[1]) + SumLen(Tail(arr))

\* the pieces of the current window that are carried over into the next
RECURSIVE dropOverlap(_, _)
dropOverlap(cur, len) ==
  LET total == SumLen(cur)
  IN IF total > chunkOverlap
        \/ (total + len + Len(cur) > chunkSize /\ total > 0)
     THEN dropOverlap(Tail(cur), len)
     ELSE cur

RECURSIVE mergeSplits(_, _, _)
mergeSplits(splits, docs, cur) ==
  IF splits = <<>>
  THEN IF cur = <<>> THEN docs ELSE Append(docs, join(cur, <<" ">>))
  ELSE LET d == Head(splits)
       IN IF SumLen(cur) + Len(d) + Len(cur) > chunkSize /\ cur # <<>>
          THEN mergeSplits(Tail(splits),
                           Append(docs, join(cur, <<" ">>)),
                           Append(dropOverlap(cur, Len(d)), d))
          ELSE mergeSplits(Tail(splits), docs, Append(cur, d))

\* a piece that is not shorter than chunkSize is a window of its own
RECURSIVE splitText(_, _, _)
splitText(splits, good, chunks) ==
  IF splits = <<>> THEN chunks \o mergeSplits(good, <<>>, <<>>)
  ELSE LET s == Head(splits)
       IN IF Len(s) < chunkSize
          THEN splitText(Tail(splits), Append(good, s), chunks)
          ELSE splitText(Tail(splits), <<>>,
                         Append(chunks \o mergeSplits(good, <<>>, <<>>), s))

createDocuments(text) ==
  splitText(SelectSeq(split(text), LAMBDA s : s # <<>>), <<>>, <<>>)

(***************************************************************************)
(* The two decompositions of the message                                   *)
(***************************************************************************)
splitTextIntoWords(text) == split(text)

\* no semantics for single words
splitTextIntoSemantics(text) ==
  IF Len(split(text)) = 1 THEN <<>> ELSE createDocuments(text)

(***************************************************************************)
(* Requests, index answers and responses                                   *)
(***************************************************************************)
ContentTypes == {"application/json", "text/plain"}

\* a body is JSON or not, and a JSON body carries a message or none
Body(json, has, msg) == [json |-> json, hasMessage |-> has, message |-> msg]

InvalidJson == Body(FALSE, FALSE, <<>>)

NoMessage == Body(TRUE, FALSE, <<>>)

Rep(n, ch) == [i \in 1..n |-> ch]

ShortMessages == UNION {[1..n -> Alphabet] : n \in 0..MaxLen}

\* 36 words; 1001 characters in two words; two words of 13 characters,
\* which do not fit one window
LongMessages ==
  { [i \in 1..71 |-> IF i % 2 = 1 THEN "a" ELSE " "],
    <<"a", " ">> \o Rep(999, "a"),
    Rep(13, "a") \o <<" ">> \o Rep(13, "a") }

Messages == ShortMessages \cup LongMessages

Bodies == {InvalidJson, NoMessage} \cup {Body(TRUE, TRUE, m) : m \in Messages}

Scores == {86, 95, 96}

Texts == {"t1", "t2"}

\* what index.query gives for one chunk: the closest entry, or nothing
Nothing == [found |-> FALSE, score |-> 0, text |-> ""]

Vectors == {[found |-> TRUE, score |-> s, text |-> t] : s \in Scores, t \in Texts}

Answers == {Nothing} \cup Vectors

NoResponse == [kind |-> "none", status |-> 0, error |-> "", score |-> 0, flaggedFor |-> ""]

Error(status, error) ==
  [kind |-> "error", status |-> status, error |-> error, score |-> 0, flaggedFor |-> ""]

Profane(score, text) ==
  [kind |-> "profane", status |-> 200, error |-> "", score |-> score, flaggedFor |-> text]

Clean(score) ==
  [kind |-> "clean", status |-> 200, error |-> "", score |-> score, flaggedFor |-> ""]

JsonExpected == Error(406, "JSON body expected.")

MessageRequired == Error(400, "Message argument is required.")

TooShortError == Error(400, "Please enter a longer text, at least 2 words.")

TooLongError == Error(400, "a message can only be up to 35 words or 1000 characters.")

SomethingWentWrong == Error(500, "Something went wrong.")

(***************************************************************************)
(* Validation                                                              *)
(***************************************************************************)
\* a handler that has lost its check of the number of words
neverTooShort(msg) == FALSE

TooShort(msg) == Len(split(msg)) < MinWords

TooLong(msg) == Len(split(msg)) > MaxWords \/ Len(msg) > MaxChars

\* the response of the check that rejects the request, NoResponse if none does
validate(ct, b) ==
  IF ct # "application/json" THEN JsonExpected
  ELSE IF ~ b.json THEN SomethingWentWrong
  ELSE IF ~ b.hasMessage \/ b.message = <<>> THEN MessageRequired
  ELSE IF TooShort(b.message) THEN TooShortError
  ELSE IF TooLong(b.message) THEN TooLongError
  ELSE NoResponse

(***************************************************************************)
(* Array.prototype.sort with the comparator of the handler.  The engine    *)
(* moves the undefined elements to the end without comparing them and      *)
(* sorts the others by binary insertion: an element goes behind every      *)
(* element the comparator does not put it in front of.                     *)
(***************************************************************************)
\* a comparator that sorts the lowest score to the front
compareAscending(a, b) == IF a.score < b.score THEN -1 ELSE 1

compare(a, b) == IF a.score > b.score THEN -1 ELSE 1

RECURSIVE insertionPoint(_, _, _, _)
insertionPoint(sorted, pivot, left, right) ==
  IF left >= right THEN left
  ELSE LET mid == left + ((right - left) \div 2)
       IN IF compare(pivot, sorted[mid + 1]) < 0
          THEN insertionPoint(sorted, pivot, left, mid)
          ELSE insertionPoint(sorted, pivot, mid + 1, right)

RECURSIVE insertAll(_, _)
insertAll(sorted, rest) ==
  IF rest = <<>> THEN sorted
  ELSE LET k == insertionPoint(sorted, Head(rest), 0, Len(sorted))
       IN insertAll(SubSeq(sorted, 1, k) \o <<Head(rest)>>
                      \o SubSeq(sorted, k + 1, Len(sorted)),
                    Tail(rest))

\* a handler that takes the first entry without sorting
noSort(arr) == arr

sort(arr) ==
  insertAll(<<>>, SelectSeq(arr, LAMBDA v : v.found))
    \o SelectSeq(arr, LAMBDA v : ~ v.found)

(***************************************************************************)
(* The callbacks of the two kinds of query                                 *)
(***************************************************************************)
\* a word check that also flags a score equal to the threshold
wordFlaggedAtThreshold(vector) == vector.found /\ vector.score >= WordThreshold

\* set the profanity threshold to high value for a close word match
wordFlagged(vector) == vector.found /\ vector.score > WordThreshold

\* set the profanity threshold to a lower value for multiple words
semanticFlagged(vector) == vector.found /\ vector.score > PROFANITY_THRESHOLD

\* what the callback of a word chunk returns
wordResult(vector) == [found |-> TRUE, score |-> 0, text |-> ""]

\* what the callback of a semantic chunk returns
semanticResult(vector) == vector

\* the value of a callback that has not returned
Pending == [found |-> FALSE, score |-> -1, text |-> ""]

\* the decision, once every query has returned
decide(flagged, vres) ==
  IF Len(flagged) > 0
  THEN LET mostProfaneWord == sort(flagged)[1]
       IN Profane(mostProfaneWord.score, mostProfaneWord.text)
  ELSE LET sorted == sort(vres)
       IN IF sorted = <<>> \/ ~ sorted[1].found
          THEN SomethingWentWrong
          ELSE Clean(sorted[1].score)

(***************************************************************************)
(* The state machine                                                       *)
(***************************************************************************)
Range(f) == {f[i] : i \in DOMAIN f}

NumQueries == Len(wordChunks) + Len(semanticChunks)

IsWord(i) == i <= Len(wordChunks)

ChunkText(i) ==
  IF IsWord(i) THEN wordChunks[i] ELSE semanticChunks[i - Len(wordChunks)]

Init ==
  /\ pc = "start"
  /\ contentType = ""
  /\ body = NoMessage
  /\ message = <<>>
  /\ wordChunks = <<>>
  /\ semanticChunks = <<>>
  /\ index = <<>>
  /\ pending = {}
  /\ failed = {}
  /\ flaggedFor = <<>>
  /\ vectorRes = <<>>
  /\ response = NoResponse

\* the request is rejected by one of the checks
Reject(ct, b) ==
  /\ pc = "start"
  /\ validate(ct, b) # NoResponse
  /\ contentType' = ct
  /\ body' = b
  /\ message' = IF ct = "application/json" THEN b.message ELSE <<>>
  /\ response' = validate(ct, b)
  /\ pc' = "done"
  /\ UNCHANGED <<wordChunks, semanticChunks, index, pending, failed,
                 flaggedFor, vectorRes>>

\* the request passes the checks: the message is filtered and split, and
\* one query is issued for every chunk
Accept(ct, b) ==
  /\ pc = "start"
  /\ validate(ct, b) = NoResponse
  /\ LET msg   == filterWhitelist(b.message)
         words == splitTextIntoWords(msg)
         sems  == splitTextIntoSemantics(msg)
     IN /\ message' = msg
        /\ wordChunks' = words
        /\ semanticChunks' = sems
        /\ \E idx \in [Range(words) \cup Range(sems) -> Answers] : index' = idx
        /\ pending' = 1..(Len(words) + Len(sems))
        /\ vectorRes' = [i \in 1..(Len(words) + Len(sems)) |-> Pending]
  /\ contentType' = ct
  /\ body' = b
  /\ flaggedFor' = <<>>
  /\ pc' = "awaiting"
  /\ UNCHANGED <<failed, response>>

Post == \E ct \in ContentTypes, b \in Bodies : Reject(ct, b) \/ Accept(ct, b)

\* the query of chunk i returns and its callback runs
QueryReturns(i) ==
  /\ i \in pending
  /\ LET vector == index[ChunkText(i)]
     IN /\ flaggedFor' =
             IF (IsWord(i) /\ wordFlagged(vector))
                \/ (~ IsWord(i) /\ semanticFlagged(vector))
             THEN Append(flaggedFor, vector)
             ELSE flaggedFor
        /\ vectorRes' = [vectorRes EXCEPT ![i] =
             IF IsWord(i) THEN wordResult(vector) ELSE semanticResult(vector)]
  /\ pending' = pending \ {i}
  /\ UNCHANGED <<pc, contentType, body, message, wordChunks, semanticChunks,
                 index, failed, response>>

\* a handler that takes a query that throws for a query without a match
QueryFailsSilently(i) ==
  /\ i \in pending
  /\ pending' = pending \ {i}
  /\ failed' = failed \cup {i}
  /\ vectorRes' = [vectorRes EXCEPT ![i] = Nothing]
  /\ UNCHANGED <<pc, contentType, body, message, wordChunks, semanticChunks,
                 index, flaggedFor, response>>

\* the query of chunk i throws: Promise.all rejects and the catch block
\* answers, unless the request has been answered already
QueryFails(i) ==
  /\ i \in pending
  /\ pending' = pending \ {i}
  /\ failed' = failed \cup {i}
  /\ response' = IF pc = "awaiting" THEN SomethingWentWrong ELSE response
  /\ pc' = "done"
  /\ UNCHANGED <<contentType, body, message, wordChunks, semanticChunks,
                 index, flaggedFor, vectorRes>>

\* every query has returned: the handler decides
Respond ==
  /\ pc = "awaiting"
  /\ pending = {}
  /\ response' = decide(flaggedFor, vectorRes)
  /\ pc' = "done"
  /\ UNCHANGED <<contentType, body, message, wordChunks, semanticChunks,
                 index, pending, failed, flaggedFor, vectorRes>>

Next ==
  \/ Post
  \/ \E i \in pending : QueryReturns(i)
  \/ \E i \in pending : QueryFails(i)
  \/ Respond

Spec == Init /\ [][Next]_vars

(***************************************************************************)
(* Properties                                                              *)
(***************************************************************************)
\* every query of the request has returned and the handler has decided
Classified == pc = "done" /\ failed = {} /\ wordChunks # <<>>

Queries == 1..NumQueries

Answer(i) == index[ChunkText(i)]

\* the score of chunk i is strictly greater than the threshold of its kind
Exceeds(i) ==
  /\ Answer(i).found
  /\ Answer(i).score > (IF IsWord(i) THEN WordThreshold ELSE PROFANITY_THRESHOLD)

\* the words of the message of the request are separated by single spaces:
\* no piece of the split is empty
SingleSpaced == \A k \in 1..Len(split(body.message)) : split(body.message)[k] # <<>>

\* ... and none of them is whitelisted
Plain == SingleSpaced /\ message = body.message

Max(S) == CHOOSE x \in S : \A y \in S : y <= x

\* C1: once every query of an accepted request has returned, the response
\* says isProfanity: true exactly if the score of some chunk is strictly
\* greater than the threshold of its kind; a score equal to it never flags.
C1_FlaggedIffAboveThreshold ==
  Classified =>
    /\ response.kind \in {"clean", "profane"}
    /\ (response.kind = "profane") <=> (\E i \in Queries : Exceeds(i))

C1_Witness ==
  /\ Classified
  /\ Plain
  /\ response.kind = "clean"
  /\ \E i \in Queries :
       IsWord(i) /\ Answer(i).found /\ Answer(i).score = WordThreshold
  /\ \E i \in Queries :
       ~ IsWord(i) /\ Answer(i).found /\ Answer(i).score = PROFANITY_THRESHOLD

\* C2: when no chunk exceeds its threshold, the response is
\* { isProfanity: false, score } with score the greatest score the index
\* returned over all the chunks, word chunks and semantic chunks alike.
\* (Stated for the messages of words separated by single spaces, none
\* whitelisted.)
C2_CleanScoreIsMaxOverAllChunks ==
  (Classified /\ Plain /\ (\A i \in Queries : ~ Exceeds(i))
     /\ (\E i \in Queries : Answer(i).found))
  => response = Clean(Max({Answer(i).score : i \in {j \in Queries : Answer(j).found}}))

\* C3: when some chunk exceeds its threshold, the response is
\* { isProfanity: true, score, flaggedFor } with score the greatest score of
\* the flagged matches and flaggedFor the text of a flagged match that has it.
C3_MostProfaneMatch ==
  (Classified /\ (\E i \in Queries : Exceeds(i)))
  => /\ response.kind = "profane"
     /\ response.status = 200
     /\ response.score = Max({Answer(i).score : i \in {j \in Queries : Exceeds(j)}})
     /\ \E i \in Queries :
          /\ Exceeds(i)
          /\ Answer(i).score = response.score
          /\ Answer(i).text = response.flaggedFor

C3_Witness ==
  /\ Classified
  /\ Plain
  /\ \E i, j \in Queries :
       Exceeds(i) /\ Exceeds(j) /\ Answer(i).score < Answer(j).score

\* C4: as soon as the query of any chunk has thrown, the response of the
\* request is the error of status 500, and it stays so whatever the other
\* queries return and whatever was flagged before.
C4_FailedQueryIsInternalError ==
  failed # {} => response = SomethingWentWrong /\ response.status = 500

C4_Witness ==
  /\ failed # {}
  /\ Plain
  /\ pending = {}
  /\ flaggedFor # <<>>
  /\ Cardinality(failed) < NumQueries

\* C5: a request that one of the validation checks rejects gets an error
\* response of a status outside 200..299, and no query is ever issued for
\* it: queries exist only for requests that pass every check.
PassesValidation ==
  /\ contentType = "application/json"
  /\ body.json
  /\ body.hasMessage
  /\ body.message # <<>>
  /\ Len(split(body.message)) >= 2
  /\ Len(split(body.message)) <= 35
  /\ Len(body.message) <= 1000

QueryIssued ==
  pending # {} \/ failed # {} \/ vectorRes # <<>> \/ flaggedFor # <<>>

C5_NoQueryBeforeValidation ==
  /\ QueryIssued => PassesValidation
  /\ (pc # "start" /\ ~ PassesValidation)
       => /\ response.kind = "error"
          /\ response.status \notin 200..299
          /\ ~ QueryIssued

C5_Witness ==
  /\ pc = "done"
  /\ contentType = "application/json"
  /\ body.hasMessage
  /\ Len(split(body.message)) > 35
  /\ response = TooLongError
  /\ ~ QueryIssued

\* the tokens of a message: its maximal runs of characters that are not
\* whitespace
Tokens(msg) == SelectSeq(split(msg), LAMBDA w : w # <<>>)

\* C6: every message of fewer than 2 tokens is rejected with the too-short
\* error of status 400 and is never classified, a single word with leading,
\* trailing or repeated whitespace included.
C6_FewerThanTwoTokensRejected ==
  (/\ pc # "start"
   /\ contentType = "application/json"
   /\ body.hasMessage
   /\ body.message # <<>>
   /\ Len(Tokens(body.message)) < 2)
  => response = TooShortError /\ ~ QueryIssued

\* the flagged matches in the order of the chunks, which is the order the
\* candidate set has when the queries return in the order they were issued
FlaggedInOrder ==
  LET F[k \in 0..NumQueries] ==
        IF k = 0 THEN <<>>
        ELSE IF (IsWord(k) /\ wordFlagged(Answer(k)))
                \/ (~ IsWord(k) /\ semanticFlagged(Answer(k)))
             THEN Append(F[k - 1], Answer(k))
             ELSE F[k - 1]
  IN F[NumQueries]

InOrderResponse == decide(FlaggedInOrder, vectorRes)

\* C7 (as stated): for a fixed message and fixed answers of the index, the
\* response is the same for every order in which the queries return, also
\* when two flagged matches have equal scores and different texts.
\* (Stated for the messages of words separated by single spaces, none
\* whitelisted.)
C7_ResponseIndependentOfOrder ==
  (Classified /\ Plain) => response = InOrderResponse

\* the texts of the flagged matches of the greatest score
TopTexts ==
  LET top == {i \in Queries : Exceeds(i)}
      best == Max({Answer(i).score : i \in top})
  IN {Answer(i).text : i \in {j \in top : Answer(j).score = best}}

\* C7 (amended): isProfanity and score are the same for every order in
\* which the queries return; flaggedFor is the same whenever the flagged
\* matches of the greatest score all carry the same text.
C7_ResponseIndependentOfOrderUpToTies ==
  Classified =>
    /\ response.kind = InOrderResponse.kind
    /\ response.status = InOrderResponse.status
    /\ response.score = InOrderResponse.score
    /\ (response.kind = "profane" /\ Cardinality(TopTexts) = 1)
         => response.flaggedFor = InOrderResponse.flaggedFor

C7_Witness ==
  /\ Classified
  /\ Plain
  /\ Len(flaggedFor) >= 2
  /\ flaggedFor # FlaggedInOrder
  /\ \E i, j \in 1..Len(flaggedFor) : flaggedFor[i].score # flaggedFor[j].score

\* the message without its k-th word and the separator next to it
RemoveToken(msg, k) ==
  LET words == split(msg)
  IN join(SubSeq(words, 1, k - 1) \o SubSeq(words, k + 1, Len(words)), <<" ">>)

\* the matches a request with message msg gets flagged, under index idx
FlaggedSet(msg, idx) ==
  IF validate("application/json", Body(TRUE, TRUE, msg)) # NoResponse THEN {}
  ELSE LET text == filterWhitelist(msg)
           words == Range(splitTextIntoWords(text)) \cap DOMAIN idx
           sems == Range(splitTextIntoSemantics(text)) \cap DOMAIN idx
       IN {idx[c] : c \in {w \in words : wordFlagged(idx[w])}}
            \cup {idx[c] : c \in {w \in sems : semanticFlagged(idx[w])}}

\* C8: removing a whitelisted word from the message never decreases the set
\* of flagged matches: every match flagged for the message is flagged for
\* the message without that word; and no word chunk is a whitelisted word.
\* (Stated for the messages whose words are separated by single spaces.)
C8_RemovingWhitelistedKeepsFlags ==
  (Classified /\ SingleSpaced) =>
    /\ \A k \in 1..Len(split(body.message)) :
         ~ NotWhitelisted(split(body.message)[k])
           => Range(flaggedFor) \subseteq FlaggedSet(RemoveToken(body.message, k), index)
    /\ \A i \in 1..Len(wordChunks) : NotWhitelisted(wordChunks[i])

\* C9: when the index returned nothing for every chunk of an accepted
\* request, the response is an error and not a clean classification.
\* (Stated for the messages of words separated by single spaces, none
\* whitelisted.)
C9_NoMatchAtAllIsError ==
  (Classified /\ Plain /\ (\A i \in Queries : ~ Answer(i).found))
  => response.kind = "error"

\* C10: once every query has returned, the candidate set has one entry for
\* each distinct (score, text) pair among the flagged matches.
\* (Stated for the messages of words separated by single spaces, none
\* whitelisted.)
C10_CandidateSetHasNoDuplicates ==
  (pc # "start" /\ Plain /\ pending = {} /\ failed = {})
  => Len(flaggedFor) = Cardinality(Range(flaggedFor))

====
